---- MODULE Spec2Model ----
(***************************************************************************)
(* Model of install_tron_node.py: main and the snapshot acquisition and   *)
(* extraction pipeline (find_latest_backup_url, download_and_extract_db)   *)
(* in Spec and FairSpec; run_command and the child it starts in CmdSpec;   *)
(* clone_and_build_java_tron over repeated runs in BuildSpec.              *)
(*                                                                         *)
(* A path or an archive member name is a sequence of one-character         *)
(* strings; "d" stands for the directory name database, "w" for a wrapper  *)
(* directory, "o" for the output directory.  A date tag is the sequence of *)
(* the decimal digits captured by the pattern backup\d{8}.                 *)
(***************************************************************************)
EXTENDS Integers, Sequences, FiniteSets, TLC

\* ------------------------------------------------------------- bounds
\* Longest directory listing served by the source root.
MaxListing == 3
\* Largest number of members of a downloaded archive.
MaxEntries == 2
\* Largest number of body bytes a download delivers.
MaxBody == 2
\* Largest number of lines a child process writes to its two pipes.
MaxWrites == 4
\* Number of lines a pipe holds before a write to it blocks.
PipeCap == 2
\* Largest number of lines of the build.gradle the clone checks out.
MaxLines == 3
\* Largest number of times the installer is run on one machine.
MaxRuns == 3

\* ------------------------------------------------------- program constants
BASE_URL == "http://34.86.86.229/"
ARCHIVE_NAME == "LiteFullNode_output-directory.tgz"
OUTPUT_DIR == <<"/", "o">>
\* The digits of backup20250410, the directory of the default URL.
DEFAULT_TAG == <<2, 0, 2, 5, 0, 4, 1, 0>>
\* \d{8}
TAG_DIGITS == 8
\* check_system_resources: free_space < 500 (GB) draws a warning.
MIN_FREE_GB == 500
\* Line 595: i % 100 == 0 updates the extraction progress line.
REPORT_EVERY == 100

\* ------------------------------------------------------------- inputs
\* The href targets a listing page may hold: dated directories, a directory
\* with too few digits, and a directory with another name.
Hrefs ==
  { [prefix |-> "backup", digits |-> <<2, 0, 2, 5, 0, 3, 0, 1>>],
    [prefix |-> "backup", digits |-> <<2, 0, 2, 5, 0, 4, 1, 0>>],
    [prefix |-> "backup", digits |-> <<2, 0, 2, 5, 0, 2, 1, 5>>],
    [prefix |-> "backup", digits |-> <<2, 0, 2, 5, 0, 5, 0, 1>>],
    [prefix |-> "backup", digits |-> <<9, 9, 9, 9, 9, 9, 9>>],
    [prefix |-> "other", digits |-> <<2, 0, 2, 6, 0, 1, 0, 1>>] }

SeqsUpTo(S, n) == UNION { [1..k -> S] : k \in 0..n }

Listings == SeqsUpTo(Hrefs, MaxListing)

\* Status codes a HEAD request may answer with.
ProbeStatuses == {200, 302, 404}

\* The members an archive may hold.
EntryPool ==
  { [name |-> <<"d">>, type |-> "dir", data |-> 0],
    [name |-> <<"d", "/", "x">>, type |-> "file", data |-> 1],
    [name |-> <<"d", "/", "x">>, type |-> "file", data |-> 2],
    [name |-> <<"w", "/", "d", "/", "x">>, type |-> "file", data |-> 1],
    [name |-> <<"w", "/", "d">>, type |-> "dir", data |-> 0],
    [name |-> <<".", ".", "/", "e">>, type |-> "file", data |-> 1],
    [name |-> <<"/", "e">>, type |-> "file", data |-> 1],
    [name |-> <<"d", "/", ".", ".", "x">>, type |-> "file", data |-> 1] }

Archives == SeqsUpTo(EntryPool, MaxEntries)

\* The free space the disk may have when the installer starts: room for one
\* unit of archive, or the recommended minimum.
DiskSizes == {1, MIN_FREE_GB}

\* What a failed earlier run left under OUTPUT_DIR: database/ and one file
\* of it, with bytes no archive of this run holds.
StaleTree ==
  [p \in { <<"/", "o">>, <<"/", "o", "/", "d">>,
           <<"/", "o", "/", "d", "/", "y">> } |->
     IF p = <<"/", "o", "/", "d", "/", "y">>
     THEN [type |-> "file", data |-> 9]
     ELSE [type |-> "dir", data |-> 0]]

VARIABLES
  pc,            \* position of the run: "main" between the calls of main
  stage,         \* main: the function main calls next or is running
  stages_done,   \* main: the functions that have returned, in order
  banner,        \* main: the success banner has been printed
  free_space,    \* free space of the disk, in GB like total_size
  warned,        \* check_system_resources printed the low disk space warning
  start_fs,      \* the tree found under OUTPUT_DIR when the run began
  response_text, \* find_latest_backup_url: hrefs of the fetched listing
  backup_dirs,   \* find_latest_backup_url: re.findall result
  latest_backup, \* find_latest_backup_url: sorted(backup_dirs)[-1]
  probe_status,  \* find_latest_backup_url: test_response.status_code, 0 if none
  find_result,   \* find_latest_backup_url: the returned URL
  requests_log,  \* HTTP requests issued so far, in order
  download_url,  \* download_and_extract_db: download_url
  archive_file,  \* /tmp/<archive_name>: [exists, size]
  total_size,    \* declared content length (0 when absent)
  downloaded,    \* bytes written so far
  progress_log,  \* the byte counts written to stdout as progress, in order
  tar_state,     \* the tarfile object: "none", "failed", "open" or "closed"
  members,       \* tar.getmembers()
  scanned,       \* members checked by the safety loop
  total_files,   \* len(tar.getmembers())
  extracted,     \* i of the extraction loop
  extract_log,   \* the members tar.extract has extracted, in order
  extract_reports, \* the progress lines of the extraction loop, in order
  fs,            \* files and directories written by tar.extract
  exit_code,     \* -1 while running, else the process exit status
  exit_reason,   \* which handler called sys.exit
  interrupted,   \* a KeyboardInterrupt was raised in the run
  cmd_pc,        \* run_command: position of the parent, "idle" when not called
  check,         \* run_command: the check argument
  child_script,  \* the lines the child has yet to write: "out" or "err" each
  child_state,   \* "none", "running", or "exited" with both pipe ends closed
  child_status,  \* exit status of the child, -1 while it runs
  stdout_pipe,   \* lines written to the stdout pipe and not yet read
  stderr_pipe,   \* lines written to the stderr pipe and not yet read
  stdout_data,   \* run_command: number of lines collected in stdout_data
  stderr_data,   \* run_command: number of lines collected in stderr_data
  returncode,    \* run_command: process.wait(), -1 before
  build_pc,      \* clone_and_build_java_tron: position, "idle" when not called
  run,           \* how many times the installer has been started
  tron_dir,      \* TRON_DIR on disk: "absent", "empty" or "repo"
  gradle,        \* TRON_DIR/build.gradle: [exists, content], content in lines
  clone_tried,   \* this run has called git clone
  clone_failed_run \* the run in which git clone failed, 0 if none

vars == << pc, stage, stages_done, banner, free_space, warned, start_fs,
           response_text, backup_dirs, latest_backup, probe_status,
           find_result,
           requests_log, download_url, archive_file, total_size, downloaded,
           progress_log,
           tar_state, members, scanned, total_files, extracted, extract_log,
           extract_reports, fs,
           exit_code, exit_reason, interrupted,
           cmd_pc, check, child_script, child_state, child_status,
           stdout_pipe, stderr_pipe, stdout_data, stderr_data, returncode,
           build_pc, run, tron_dir, gradle, clone_tried, clone_failed_run >>

mainVars == << stage, stages_done, banner, free_space, warned, start_fs >>

findVars == << response_text, backup_dirs, latest_backup, probe_status,
              find_result >>
dlVars == << archive_file, total_size, downloaded, progress_log >>
tarVars == << tar_state, members, scanned, total_files, extracted,
             extract_log, extract_reports, fs >>
exitVars == << exit_code, exit_reason, interrupted >>
cmdVars == << cmd_pc, check, child_script, child_state, child_status,
             stdout_pipe, stderr_pipe, stdout_data, stderr_data, returncode >>
buildVars == << build_pc, run, tron_dir, gradle, clone_tried,
               clone_failed_run >>

\* ------------------------------------------------------------- helpers
Url(dir) == [base |-> BASE_URL, dir |-> dir, file |-> ARCHIVE_NAME]
NoUrl == [base |-> "", dir |-> <<>>, file |-> ""]
FallbackUrl == Url(DEFAULT_TAG)
\* BASE_URL itself, the listing page.
ListingUrl == [base |-> BASE_URL, dir |-> <<>>, file |-> ""]

EmptyFs == [p \in {} |-> [type |-> "dir", data |-> 0]]

\* The status each handler passes to sys.exit: 1 in all of them (lines 225,
\* 563, 577, 610, 621 and the handlers of the other stages).
ExitStatus(reason) == 1

\* sys.exit(1) from the handler named by reason.
Exit(reason) ==
  /\ pc' = "exit"
  /\ exit_code' = ExitStatus(reason)
  /\ exit_reason' = reason
  /\ UNCHANGED interrupted

\* The trees the run may find under OUTPUT_DIR.
StartTrees == {EmptyFs, StaleTree}

\* Variant of MainStages that downloads the database before the build.
MainStages_DownloadBeforeBuild ==
  << "check_root", "check_system_resources", "install_dependencies",
     "configure_java", "download_and_extract_db",
     "clone_and_build_java_tron", "create_config_files", "setup_systemd",
     "start_node", "check_node_status" >>

\* Lines 1737-1764: the calls of main, in order.
MainStages ==
  << "check_root", "check_system_resources", "install_dependencies",
     "configure_java", "clone_and_build_java_tron",
     "download_and_extract_db", "create_config_files", "setup_systemd",
     "start_node", "check_node_status" >>

\* The call that follows stage s in main; after the last one, the banner.
StageAfter(s) ==
  LET i == CHOOSE k \in DOMAIN MainStages : MainStages[k] = s
  IN IF i = Len(MainStages) THEN "banner" ELSE MainStages[i + 1]

\* The called function returns to main.
Complete(s) ==
  /\ stages_done' = Append(stages_done, s)
  /\ stage' = StageAfter(s)

\* run_command is not running.
CmdAtRest ==
  /\ cmd_pc = "idle"
  /\ check = TRUE
  /\ child_script = <<>>
  /\ child_state = "none"
  /\ child_status = -1
  /\ stdout_pipe = 0
  /\ stderr_pipe = 0
  /\ stdout_data = 0
  /\ stderr_data = 0
  /\ returncode = -1

\* clone_and_build_java_tron is not running; TRON_DIR does not exist.
BuildAtRest ==
  /\ build_pc = "idle"
  /\ run = 1
  /\ tron_dir = "absent"
  /\ gradle = [exists |-> FALSE, content |-> <<>>]
  /\ clone_tried = FALSE
  /\ clone_failed_run = 0

\* main is entered.
InitMain ==
  /\ pc = "main"
  /\ stage = MainStages[1]
  /\ stages_done = <<>>
  /\ banner = FALSE
  /\ free_space \in DiskSizes
  /\ warned = FALSE
  /\ start_fs \in StartTrees
  /\ response_text = <<>>
  /\ backup_dirs = <<>>
  /\ latest_backup = <<>>
  /\ probe_status = 0
  /\ find_result = NoUrl
  /\ requests_log = <<>>
  /\ download_url = NoUrl
  /\ archive_file = [exists |-> FALSE, size |-> 0]
  /\ total_size = 0
  /\ downloaded = 0
  /\ progress_log = <<>>
  /\ tar_state = "none"
  /\ members = <<>>
  /\ scanned = 0
  /\ total_files = 0
  /\ extracted = 0
  /\ extract_log = <<>>
  /\ extract_reports = <<>>
  /\ fs = start_fs
  /\ exit_code = -1
  /\ exit_reason = "none"
  /\ interrupted = FALSE

Init == InitMain /\ CmdAtRest /\ BuildAtRest

\* ------------------------------------------------------------------ main
pipeVars == << findVars, requests_log, download_url, dlVars, tarVars >>

\* Lines 219-226, 1737: check_root exits unless the effective uid is 0.
CheckRoot ==
  /\ pc = "main"
  /\ stage = "check_root"
  /\ \/ /\ Complete(stage)
        /\ UNCHANGED << pc, exitVars >>
     \/ /\ Exit("root")
        /\ UNCHANGED << stage, stages_done >>
  /\ UNCHANGED << banner, free_space, warned, start_fs, pipeVars >>
  /\ UNCHANGED << cmdVars, buildVars >>

\* Lines 228-284, 1740: check_system_resources only warns; the disk branch
\* warns below MIN_FREE_GB, and prints another message when statvfs raises.
CheckSystemResources ==
  /\ pc = "main"
  /\ stage = "check_system_resources"
  /\ \/ warned' = (free_space < MIN_FREE_GB)
     \/ warned' = FALSE
  /\ Complete(stage)
  /\ UNCHANGED << pc, banner, free_space, start_fs, pipeVars, exitVars >>
  /\ UNCHANGED << cmdVars, buildVars >>

\* The calls of main that end in sys.exit(1) when they fail.
ExitingStages ==
  { "install_dependencies", "configure_java", "clone_and_build_java_tron",
    "create_config_files", "setup_systemd", "start_node" }

\* Lines 1743-1749, 1755-1761: the called function returns.
StageReturns ==
  /\ pc = "main"
  /\ stage \in ExitingStages
  /\ Complete(stage)
  /\ UNCHANGED << pc, banner, free_space, warned, start_fs, pipeVars,
                  exitVars >>
  /\ UNCHANGED << cmdVars, buildVars >>

\* Variant of StageFails that reports the error and returns to main.
StageFails_Continues ==
  /\ pc = "main"
  /\ stage \in ExitingStages
  /\ exit_reason' = "stage"
  /\ Complete(stage)
  /\ UNCHANGED << pc, exit_code, interrupted, banner, free_space, warned,
                  start_fs, pipeVars >>
  /\ UNCHANGED << cmdVars, buildVars >>

\* Lines 315-319, 435-439, 722-726, 1606-1610, 1638-1642, 1673-1677: the
\* called function fails and exits.
StageFails ==
  /\ pc = "main"
  /\ stage \in ExitingStages
  /\ Exit("stage")
  /\ UNCHANGED << mainVars, pipeVars >>
  /\ UNCHANGED << cmdVars, buildVars >>

\* Lines 1752, 490-495: main calls download_and_extract_db.
StartPipeline ==
  /\ pc = "main"
  /\ stage = "download_and_extract_db"
  /\ pc' = "find"
  /\ UNCHANGED << mainVars, pipeVars, exitVars >>
  /\ UNCHANGED << cmdVars, buildVars >>

\* Lines 615, 1752-1755: download_and_extract_db returns to main.
ReturnToMain ==
  /\ pc = "returned"
  /\ pc' = "main"
  /\ Complete(stage)
  /\ UNCHANGED << banner, free_space, warned, start_fs, pipeVars, exitVars >>
  /\ UNCHANGED << cmdVars, buildVars >>

\* Lines 1679-1721, 1764: check_node_status reports and never exits.
CheckNodeStatus ==
  /\ pc = "main"
  /\ stage = "check_node_status"
  /\ Complete(stage)
  /\ UNCHANGED << pc, banner, free_space, warned, start_fs, pipeVars,
                  exitVars >>
  /\ UNCHANGED << cmdVars, buildVars >>

\* Lines 1766-1777: the success banner; main returns and the process ends
\* with status 0.
PrintBanner ==
  /\ pc = "main"
  /\ stage = "banner"
  /\ banner' = TRUE
  /\ pc' = "done"
  /\ exit_code' = 0
  /\ UNCHANGED << stage, stages_done, free_space, warned, start_fs, pipeVars,
                  exit_reason, interrupted >>
  /\ UNCHANGED << cmdVars, buildVars >>

\* ------------------------------------------------ find_latest_backup_url
\* Whether the pattern href="(backup\d{8})/" matches the href.
MatchesBackup(h) == h.prefix = "backup" /\ Len(h.digits) = TAG_DIGITS

RECURSIVE FindAll(_)
\* re.findall: the digits of the matching hrefs, in page order.
FindAll(text) ==
  IF text = <<>> THEN <<>>
  ELSE IF MatchesBackup(Head(text))
       THEN <<Head(text).digits>> \o FindAll(Tail(text))
       ELSE FindAll(Tail(text))

RECURSIVE StrLess(_, _)
\* Python's str order on two names with the common prefix backup: the first
\* differing character decides, a proper prefix is smaller.
StrLess(a, b) ==
  IF b = <<>> THEN FALSE
  ELSE IF a = <<>> THEN TRUE
  ELSE IF Head(a) # Head(b) THEN Head(a) < Head(b)
  ELSE StrLess(Tail(a), Tail(b))

\* Variant of SortedLast that takes the last listed directory, unsorted.
SortedLast_Unsorted(dirs) == dirs[Len(dirs)]

\* Variant of SortedLast that takes the first of the sorted directories.
SortedLast_Smallest(dirs) ==
  CHOOSE d \in { dirs[i] : i \in DOMAIN dirs } :
    \A j \in DOMAIN dirs : ~StrLess(dirs[j], d)

\* sorted(dirs)[-1]
SortedLast(dirs) ==
  CHOOSE d \in { dirs[i] : i \in DOMAIN dirs } :
    \A j \in DOMAIN dirs : ~StrLess(d, dirs[j])

\* Lines 448-462: GET BASE_URL, raise_for_status, findall; the default URL is
\* returned when the request fails or the page lists no backup directory.
FetchListing ==
  /\ pc = "find"
  /\ requests_log' = Append(requests_log, [method |-> "GET", url |-> ListingUrl])
  /\ \/ \* requests.get raises, or raise_for_status raises: lines 484-488
        /\ find_result' = FallbackUrl
        /\ pc' = "find_ret"
        /\ UNCHANGED << response_text, backup_dirs, latest_backup >>
     \/ \E text \in Listings :
          /\ response_text' = text
          /\ backup_dirs' = FindAll(text)
          /\ IF FindAll(text) = <<>>
             THEN /\ find_result' = FallbackUrl
                  /\ pc' = "find_ret"
                  /\ UNCHANGED latest_backup
             ELSE /\ latest_backup' = SortedLast(FindAll(text))
                  /\ pc' = "probe"
                  /\ UNCHANGED find_result
  /\ UNCHANGED << probe_status, download_url, dlVars, tarVars, exitVars,
                  mainVars >>
  /\ UNCHANGED << cmdVars, buildVars >>

\* Line 451: requests.get is called without a timeout; while the source root
\* does not answer, the call does not return.
FetchListingHangs ==
  /\ pc = "find"
  /\ requests_log' = Append(requests_log, [method |-> "GET", url |-> ListingUrl])
  /\ pc' = "find_wait"
  /\ UNCHANGED << findVars, download_url, dlVars, tarVars, exitVars,
                  mainVars >>
  /\ UNCHANGED << cmdVars, buildVars >>

\* Line 475: requests.head is called without a timeout; while the source
\* root does not answer, the call does not return.
ProbeHangs ==
  /\ pc = "probe"
  /\ requests_log' =
       Append(requests_log, [method |-> "HEAD", url |-> Url(latest_backup)])
  /\ pc' = "probe_wait"
  /\ UNCHANGED << findVars, download_url, dlVars, tarVars, exitVars,
                  mainVars >>
  /\ UNCHANGED << cmdVars, buildVars >>

\* Variant of Probe that returns the default URL whatever the probe answers.
Probe_AlwaysFallback ==
  /\ pc = "probe"
  /\ requests_log' =
       Append(requests_log, [method |-> "HEAD", url |-> Url(latest_backup)])
  /\ \E status \in ProbeStatuses :
       /\ probe_status' = status
       /\ find_result' = FallbackUrl
  /\ pc' = "find_ret"
  /\ UNCHANGED << response_text, backup_dirs, latest_backup, download_url,
                  dlVars, tarVars, exitVars, mainVars >>
  /\ UNCHANGED << cmdVars, buildVars >>

\* Variant of Probe that takes a redirect for success.
Probe_AcceptsRedirect ==
  /\ pc = "probe"
  /\ requests_log' =
       Append(requests_log, [method |-> "HEAD", url |-> Url(latest_backup)])
  /\ \E status \in ProbeStatuses :
       /\ probe_status' = status
       /\ find_result' = IF status \in {200, 302} THEN Url(latest_backup)
                         ELSE FallbackUrl
  /\ pc' = "find_ret"
  /\ UNCHANGED << response_text, backup_dirs, latest_backup, download_url,
                  dlVars, tarVars, exitVars, mainVars >>
  /\ UNCHANGED << cmdVars, buildVars >>

\* Lines 470-488: HEAD on the newest directory's archive; any answer but 200,
\* and any exception, returns the default URL.
Probe ==
  /\ pc = "probe"
  /\ requests_log' =
       Append(requests_log, [method |-> "HEAD", url |-> Url(latest_backup)])
  /\ \/ \* requests.head raises: lines 484-488
        /\ find_result' = FallbackUrl
        /\ UNCHANGED probe_status
     \/ \E status \in ProbeStatuses :
          /\ probe_status' = status
          /\ find_result' = IF status # 200 THEN FallbackUrl
                            ELSE Url(latest_backup)
  /\ pc' = "find_ret"
  /\ UNCHANGED << response_text, backup_dirs, latest_backup, download_url,
                  dlVars, tarVars, exitVars,
                  mainVars >>
  /\ UNCHANGED << cmdVars, buildVars >>

\* ----------------------------------------------- download_and_extract_db
\* The names of every directory above path p.
ParentDirs(p) == { SubSeq(p, 1, i - 1) : i \in { j \in 2..Len(p) : p[j] = "/" } }

DirNode == [type |-> "dir", data |-> 0]

\* os.makedirs(d): d and the directories above it exist afterwards.
MakeDirs(f, d) ==
  [q \in DOMAIN f \cup ParentDirs(d) \cup {d} |->
     IF q \in DOMAIN f THEN f[q] ELSE DirNode]

\* Lines 497-512: the caller takes the returned URL (the frame of
\* find_latest_backup_url is gone), creates OUTPUT_DIR when it is missing and
\* names the archive path.  makedirs raising reaches the outer handler.
PrepareDownload ==
  /\ pc = "find_ret"
  /\ download_url' = find_result
  /\ response_text' = <<>>
  /\ backup_dirs' = <<>>
  /\ latest_backup' = <<>>
  /\ probe_status' = 0
  /\ find_result' = NoUrl
  /\ \/ /\ fs' = IF OUTPUT_DIR \in DOMAIN fs THEN fs
                 ELSE MakeDirs(fs, OUTPUT_DIR)
        /\ pc' = "get"
        /\ UNCHANGED exitVars
     \/ /\ OUTPUT_DIR \notin DOMAIN fs
        /\ Exit("outer")
        /\ UNCHANGED fs
  /\ UNCHANGED << requests_log, dlVars, tar_state, members, scanned,
                  total_files, extracted, extract_log, extract_reports,
                  mainVars >>
  /\ UNCHANGED << cmdVars, buildVars >>

\* Lines 519-531: GET download_url with stream=True, raise_for_status, read
\* content-length (0 when the header is absent), open the archive path 'wb'.
StartDownload ==
  /\ pc = "get"
  /\ requests_log' = Append(requests_log, [method |-> "GET", url |-> download_url])
  /\ \E size \in 0..MaxBody :
       /\ total_size' = size
       /\ archive_file' = [exists |-> TRUE, size |-> 0]
       /\ pc' = "stream"
  /\ UNCHANGED << findVars, download_url, downloaded, progress_log, tarVars,
                  exitVars,
                  mainVars >>
  /\ UNCHANGED << cmdVars, buildVars >>

\* Lines 519-520, 559-563: the request raises or answers with an error status
\* before the file is opened.
RequestFails ==
  /\ pc = "get"
  /\ requests_log' = Append(requests_log, [method |-> "GET", url |-> download_url])
  /\ Exit("download")
  /\ UNCHANGED << findVars, download_url, dlVars, tarVars,
                  mainVars >>
  /\ UNCHANGED << cmdVars, buildVars >>

\* Variant of ShowsProgress that computes the progress for every chunk.
ShowsProgress_Always(total) == TRUE

\* Line 537: if total_size > 0
ShowsProgress(total) == total > 0

\* Line 539: downloaded / total_size raises ZeroDivisionError when the total
\* size is 0.
PercentRaises(total) == total = 0

\* Variant of Report that prints the count held before the chunk is added.
Report_BeforeAdd(log, total, before, n) ==
  IF ShowsProgress(total) /\ ~PercentRaises(total) THEN Append(log, before)
  ELSE log

\* Lines 535-550: downloaded += len(chunk), then, when the total size is
\* known, the progress line with the new count is written to stdout.
Report(log, total, before, n) ==
  IF ShowsProgress(total) /\ ~PercentRaises(total)
  THEN Append(log, before + n) ELSE log

\* Lines 532-550: one chunk of iter_content; an empty chunk is skipped, any
\* other is written (the write fails on a full disk, see StreamFails),
\* counted and, when progress is shown, reported; a division by a zero
\* total size would reach the download handler (lines 559-563).
ReceiveChunk ==
  /\ pc = "stream"
  /\ \E n \in 0..(MaxBody - downloaded) :
       IF n > 0
       THEN /\ archive_file.size + n <= free_space
            /\ archive_file' = [exists |-> TRUE, size |-> archive_file.size + n]
            /\ downloaded' = downloaded + n
            /\ progress_log' = Report(progress_log, total_size, downloaded, n)
            /\ IF ShowsProgress(total_size) /\ PercentRaises(total_size)
               THEN Exit("download")
               ELSE UNCHANGED << pc, exitVars >>
       ELSE UNCHANGED << archive_file, downloaded, progress_log, pc, exitVars >>
  /\ UNCHANGED << findVars, requests_log, download_url, total_size,
                  tarVars, mainVars >>
  /\ UNCHANGED << cmdVars, buildVars >>

\* Lines 532-534, 559-563: the connection drops or f.write raises mid-stream;
\* the with block closes the file, the handler exits.
StreamFails ==
  /\ pc = "stream"
  /\ Exit("download")
  /\ UNCHANGED << findVars, requests_log, download_url, dlVars, tarVars,
                  mainVars >>
  /\ UNCHANGED << cmdVars, buildVars >>

\* Lines 552-557: the body iterator ends; the download is reported done.
EndOfStream ==
  /\ pc = "stream"
  /\ pc' = "open"
  /\ UNCHANGED << findVars, requests_log, download_url, dlVars, tarVars,
                  exitVars,
                  mainVars >>
  /\ UNCHANGED << cmdVars, buildVars >>

\* Variant of IsUnsafe that only rejects absolute names.
IsUnsafe_AbsoluteOnly(name) == Len(name) > 0 /\ name[1] = "/"

\* Line 574: member.name.startswith('/') or '..' in member.name
IsUnsafe(name) ==
  \/ (Len(name) > 0 /\ name[1] = "/")
  \/ \E i \in 1..(Len(name) - 1) : name[i] = "." /\ name[i + 1] = "."

\* Variant of JoinPath that drops the leading component of a relative name.
JoinPath_Strip(dir, name) ==
  IF Len(name) > 0 /\ name[1] = "/" THEN name
  ELSE IF \E i \in 1..Len(name) : name[i] = "/"
       THEN LET cut == CHOOSE i \in 1..Len(name) :
                         name[i] = "/" /\ \A j \in 1..(i - 1) : name[j] # "/"
            IN dir \o SubSeq(name, cut, Len(name))
       ELSE dir \o <<"/">> \o name

\* os.path.join(path, member.name), as tar.extract computes the target: an
\* absolute second argument discards the first.
JoinPath(dir, name) ==
  IF Len(name) > 0 /\ name[1] = "/" THEN name ELSE dir \o <<"/">> \o name

\* tar.extract(member, path=OUTPUT_DIR): the member is written at the joined
\* path, the directories above it are created when missing.
ExtractMember(f, e) ==
  LET p == JoinPath(OUTPUT_DIR, e.name)
      up == ParentDirs(p)
  IN [q \in DOMAIN f \cup up \cup {p} |->
        IF q = p THEN [type |-> e.type, data |-> e.data]
        ELSE IF q \in DOMAIN f THEN f[q]
        ELSE DirNode]

\* Line 570 and 573: tarfile.open and getmembers enumerate the archive.
OpenArchive ==
  /\ pc = "open"
  /\ \E tar \in Archives : members' = tar
  /\ tar_state' = "open"
  /\ pc' = "scan"
  /\ UNCHANGED << findVars, requests_log, download_url, dlVars, scanned,
                  total_files, extracted,
                  extract_log, extract_reports, fs, exitVars,
                  mainVars >>
  /\ UNCHANGED << cmdVars, buildVars >>

\* Variant of OpenFails that logs the error and goes on to remove the file.
OpenFails_Swallowed ==
  /\ pc = "open"
  /\ tar_state' = "failed"
  /\ pc' = "remove"
  /\ UNCHANGED << findVars, requests_log, download_url, dlVars, members,
                  scanned, total_files, extracted,
                  extract_log, extract_reports, fs, exitVars, mainVars >>
  /\ UNCHANGED << cmdVars, buildVars >>

\* Lines 570-573, 606-610: tarfile.open or getmembers raises: the container
\* cannot be opened or enumerated.
OpenFails ==
  /\ pc = "open"
  /\ tar_state' = "failed"
  /\ Exit("extract")
  /\ UNCHANGED << findVars, requests_log, download_url, dlVars, members,
                  scanned, total_files, extracted,
                  extract_log, extract_reports, fs, mainVars >>
  /\ UNCHANGED << cmdVars, buildVars >>

\* Lines 573-577: one iteration of the safety loop.
ScanStep ==
  /\ pc = "scan"
  /\ scanned < Len(members)
  /\ IF IsUnsafe(members[scanned + 1].name)
     THEN /\ Exit("unsafe")
          /\ tar_state' = "closed"
          /\ UNCHANGED scanned
     ELSE /\ scanned' = scanned + 1
          /\ UNCHANGED << pc, tar_state, exitVars >>
  /\ UNCHANGED << findVars, requests_log, download_url, dlVars, members,
                  total_files, extracted, extract_log, extract_reports, fs,
                  mainVars >>
  /\ UNCHANGED << cmdVars, buildVars >>

\* Variant of ScanFinished that is content with one checked member.
ScanFinished_AfterFirst == scanned >= 1 \/ members = <<>>

\* The safety loop has run over every member.
ScanFinished == scanned = Len(members)

\* Lines 580-585: the member count is taken after the safety loop.
CountFiles ==
  /\ pc = "scan"
  /\ ScanFinished
  /\ total_files' = Len(members)
  /\ pc' = "extract"
  /\ UNCHANGED << findVars, requests_log, download_url, dlVars, tar_state,
                  members, scanned, extracted,
                  extract_log, extract_reports, fs, exitVars,
                  mainVars >>
  /\ UNCHANGED << cmdVars, buildVars >>

\* Line 590: i / total_files raises ZeroDivisionError when total_files is 0.
DivRaises(total) == total = 0

\* Lines 590-591: int(i / total_files * 100) % 5 == 0 writes a log line.
\* (The quotient is exact here; in floating point it may fall one below.)
LogsProgress(i, total) == ((i * 100) \div total) % 5 = 0

\* Line 595: i % 100 == 0 or i == total_files updates the progress line.
PrintsProgress(i, total) == i % REPORT_EVERY = 0 \/ i = total

\* Lines 590-598: the progress lines entry i of total gives rise to.
ProgressLines(i, total) ==
  (IF LogsProgress(i, total) THEN << [i |-> i, to |-> "log"] >> ELSE <<>>)
  \o (IF PrintsProgress(i, total) THEN << [i |-> i, to |-> "stdout"] >>
      ELSE <<>>)

\* Variant of ExtractStep whose loop index advances once more when a log
\* line is written.
ExtractStep_SkipsAfterLog ==
  /\ pc = "extract"
  /\ extracted < Len(members)
  /\ ~DivRaises(total_files)
  /\ fs' = ExtractMember(fs, members[extracted + 1])
  /\ extract_log' = Append(extract_log, members[extracted + 1])
  /\ extracted' =
       IF LogsProgress(extracted + 1, total_files)
          /\ extracted + 2 <= Len(members)
       THEN extracted + 2 ELSE extracted + 1
  /\ extract_reports' =
       extract_reports \o ProgressLines(extracted + 1, total_files)
  /\ UNCHANGED << pc, tar_state, exitVars >>
  /\ UNCHANGED << findVars, requests_log, download_url, dlVars, members,
                  scanned, total_files, mainVars >>
  /\ UNCHANGED << cmdVars, buildVars >>

\* Lines 586-598: one iteration of the extraction loop: extract the member,
\* then compute the progress and write the progress lines that are due.
ExtractStep ==
  /\ pc = "extract"
  /\ extracted < Len(members)
  /\ fs' = ExtractMember(fs, members[extracted + 1])
  /\ extract_log' = Append(extract_log, members[extracted + 1])
  /\ IF DivRaises(total_files)
     THEN /\ Exit("extract")
          /\ tar_state' = "closed"
          /\ UNCHANGED << extracted, extract_reports >>
     ELSE /\ extracted' = extracted + 1
          /\ extract_reports' =
               extract_reports \o ProgressLines(extracted + 1, total_files)
          /\ UNCHANGED << pc, tar_state, exitVars >>
  /\ UNCHANGED << findVars, requests_log, download_url, dlVars, members,
                  scanned, total_files,
                  mainVars >>
  /\ UNCHANGED << cmdVars, buildVars >>

\* What a member leaves behind when its extraction breaks off: a file with
\* part of its bytes (data -1), a directory as it is.
Truncated(e) ==
  IF e.type = "file" THEN [e EXCEPT !.data = -1] ELSE e

\* Variant of ExtractFails that rolls the target back to what the run found.
ExtractFails_Rollback ==
  /\ pc = "extract"
  /\ extracted < Len(members)
  /\ Exit("extract")
  /\ tar_state' = "closed"
  /\ fs' = MakeDirs(start_fs, OUTPUT_DIR)
  /\ UNCHANGED << findVars, requests_log, download_url, dlVars, members,
                  scanned, total_files, extracted,
                  extract_log, extract_reports, mainVars >>
  /\ UNCHANGED << cmdVars, buildVars >>

\* Lines 587, 606-610: tar.extract raises (disk full, permission, I/O)
\* before or while it writes the member; what was extracted stays.
ExtractFails ==
  /\ pc = "extract"
  /\ extracted < Len(members)
  /\ Exit("extract")
  /\ tar_state' = "closed"
  /\ \/ UNCHANGED fs
     \/ fs' = ExtractMember(fs, Truncated(members[extracted + 1]))
  /\ UNCHANGED << findVars, requests_log, download_url, dlVars, members,
                  scanned, total_files, extracted,
                  extract_log, extract_reports, mainVars >>
  /\ UNCHANGED << cmdVars, buildVars >>

\* Variant of FinishExtract that prints a final progress line computed as
\* extracted / total_files after the loop.
FinishExtract_FinalPercent ==
  /\ pc = "extract"
  /\ extracted = Len(members)
  /\ tar_state' = "closed"
  /\ IF DivRaises(total_files)
     THEN Exit("extract")
     ELSE pc' = "remove" /\ UNCHANGED exitVars
  /\ UNCHANGED << findVars, requests_log, download_url, dlVars, members,
                  scanned, total_files, extracted,
                  extract_log, extract_reports, fs,
                  mainVars >>
  /\ UNCHANGED << cmdVars, buildVars >>

\* Lines 600-604: the loop is over; the with block closes the archive.
FinishExtract ==
  /\ pc = "extract"
  /\ extracted = Len(members)
  /\ pc' = "remove"
  /\ tar_state' = "closed"
  /\ UNCHANGED << findVars, requests_log, download_url, dlVars, members,
                  scanned, total_files, extracted,
                  extract_log, extract_reports, fs, exitVars,
                  mainVars >>
  /\ UNCHANGED << cmdVars, buildVars >>

\* Lines 613-615: os.remove(archive_path), then return to main.
RemoveArchive ==
  /\ pc = "remove"
  /\ archive_file' = [exists |-> FALSE, size |-> 0]
  /\ pc' = "returned"
  /\ UNCHANGED << findVars, requests_log, download_url, total_size,
                  downloaded, progress_log, tarVars, exitVars,
                  mainVars >>
  /\ UNCHANGED << cmdVars, buildVars >>

\* Lines 614, 617-621: os.remove raises; the outer handler exits.
RemoveFails ==
  /\ pc = "remove"
  /\ Exit("outer")
  /\ UNCHANGED << findVars, requests_log, download_url, dlVars, tarVars,
                  mainVars >>
  /\ UNCHANGED << cmdVars, buildVars >>

\* The positions of download_and_extract_db at which the run blocks on the
\* network or the disk.
InterruptiblePcs ==
  {"find", "find_wait", "probe", "probe_wait", "get", "stream", "open",
   "scan", "extract", "remove"}

\* Variant of Interrupt for a bare except clause around the listing request:
\* the interrupt is taken for a request error and the default URL returned.
Interrupt_Swallowed ==
  /\ pc \in InterruptiblePcs
  /\ interrupted' = TRUE
  /\ IF pc \in {"find", "probe"}
     THEN /\ find_result' = FallbackUrl
          /\ pc' = "find_ret"
          /\ UNCHANGED << exit_code, exit_reason >>
     ELSE /\ pc' = "exit"
          /\ exit_code' = 130
          /\ exit_reason' = "interrupt"
          /\ UNCHANGED find_result
  /\ UNCHANGED << response_text, backup_dirs, latest_backup, probe_status,
                  requests_log, download_url, dlVars, tarVars, mainVars >>
  /\ UNCHANGED << cmdVars, buildVars >>

\* An operator interrupt: KeyboardInterrupt is no Exception, so no handler
\* of the file catches it (lines 484, 559, 606, 617, 1779); the with blocks
\* close the file and the archive, and the interpreter ends the process,
\* by SIGINT (status 130) or with status 1 on older interpreters.
Interrupt ==
  /\ pc \in InterruptiblePcs
  /\ interrupted' = TRUE
  /\ pc' = "exit"
  /\ exit_code' \in {1, 130}
  /\ exit_reason' = "interrupt"
  /\ tar_state' = IF tar_state = "open" THEN "closed" ELSE tar_state
  /\ \/ UNCHANGED fs
     \/ \* tar.extract is cut off while it writes the member
        /\ pc = "extract"
        /\ extracted < Len(members)
        /\ fs' = ExtractMember(fs, Truncated(members[extracted + 1]))
  /\ UNCHANGED << findVars, requests_log, download_url, dlVars, members,
                  scanned, total_files, extracted,
                  extract_log, extract_reports, mainVars >>
  /\ UNCHANGED << cmdVars, buildVars >>

Next ==
  \/ CheckRoot
  \/ CheckSystemResources
  \/ StageReturns
  \/ StageFails
  \/ StartPipeline
  \/ ReturnToMain
  \/ CheckNodeStatus
  \/ PrintBanner
  \/ FetchListing
  \/ FetchListingHangs
  \/ Probe
  \/ ProbeHangs
  \/ PrepareDownload
  \/ StartDownload
  \/ RequestFails
  \/ ReceiveChunk
  \/ StreamFails
  \/ EndOfStream
  \/ OpenArchive
  \/ OpenFails
  \/ ScanStep
  \/ CountFiles
  \/ ExtractStep
  \/ ExtractFails
  \/ FinishExtract
  \/ RemoveArchive
  \/ RemoveFails
  \/ Interrupt

Spec == Init /\ [][Next]_vars

\* The interpreter keeps executing the program: a step other than an
\* operator interrupt is taken whenever one stays possible.
FairSpec == Init /\ [][Next]_vars /\ WF_vars(Next /\ ~interrupted')

\* ----------------------------------------------------------- run_command
\* The state of main and of the pipeline.
installerVars == << pc, mainVars, pipeVars, exitVars >>

\* main has not begun: a fresh machine with the recommended disk space.
InstallerAtRest ==
  InitMain /\ free_space = MIN_FREE_GB /\ start_fs = EmptyFs

\* What a child process may write, line by line, before it exits.
Scripts == SeqsUpTo({"out", "err"}, MaxWrites)

\* Lines 94-105: Popen with stdout=PIPE and stderr=PIPE has started the
\* child; the parent is about to iterate over process.stdout.
CmdInit ==
  /\ InstallerAtRest
  /\ BuildAtRest
  /\ cmd_pc = "read_stdout"
  /\ check \in BOOLEAN
  /\ child_script \in Scripts
  /\ child_state = "running"
  /\ child_status = -1
  /\ stdout_pipe = 0
  /\ stderr_pipe = 0
  /\ stdout_data = 0
  /\ stderr_data = 0
  /\ returncode = -1

\* The child writes its next line; the write blocks while the pipe is full.
ChildWrites ==
  /\ child_state = "running"
  /\ child_script # <<>>
  /\ IF Head(child_script) = "out"
     THEN /\ stdout_pipe < PipeCap
          /\ stdout_pipe' = stdout_pipe + 1
          /\ UNCHANGED stderr_pipe
     ELSE /\ stderr_pipe < PipeCap
          /\ stderr_pipe' = stderr_pipe + 1
          /\ UNCHANGED stdout_pipe
  /\ child_script' = Tail(child_script)
  /\ UNCHANGED << cmd_pc, check, child_state, child_status, stdout_data,
                  stderr_data, returncode, installerVars, buildVars >>

\* The child has written everything and exits, which closes its ends of
\* both pipes.
ChildExits ==
  /\ child_state = "running"
  /\ child_script = <<>>
  /\ child_state' = "exited"
  /\ child_status' \in {0, 1}
  /\ UNCHANGED << cmd_pc, check, child_script, stdout_pipe, stderr_pipe,
                  stdout_data, stderr_data, returncode, installerVars,
                  buildVars >>

\* Lines 108-112: one iteration of 'for line in process.stdout'.
ReadStdout ==
  /\ cmd_pc = "read_stdout"
  /\ stdout_pipe > 0
  /\ stdout_pipe' = stdout_pipe - 1
  /\ stdout_data' = stdout_data + 1
  /\ UNCHANGED << cmd_pc, check, child_script, child_state, child_status,
                  stderr_pipe, stderr_data, returncode, installerVars,
                  buildVars >>

\* Lines 108, 114: the stdout loop ends at end-of-file, that is when the
\* pipe is empty and the child has closed its end.
StdoutEof ==
  /\ cmd_pc = "read_stdout"
  /\ stdout_pipe = 0
  /\ child_state = "exited"
  /\ cmd_pc' = "read_stderr"
  /\ UNCHANGED << check, child_script, child_state, child_status,
                  stdout_pipe, stderr_pipe, stdout_data, stderr_data,
                  returncode, installerVars, buildVars >>

\* Lines 117-121: one iteration of 'for line in process.stderr'.
ReadStderr ==
  /\ cmd_pc = "read_stderr"
  /\ stderr_pipe > 0
  /\ stderr_pipe' = stderr_pipe - 1
  /\ stderr_data' = stderr_data + 1
  /\ UNCHANGED << cmd_pc, check, child_script, child_state, child_status,
                  stdout_pipe, stdout_data, returncode, installerVars,
                  buildVars >>

\* Lines 117, 123: the stderr loop ends at end-of-file.
StderrEof ==
  /\ cmd_pc = "read_stderr"
  /\ stderr_pipe = 0
  /\ child_state = "exited"
  /\ cmd_pc' = "wait"
  /\ UNCHANGED << check, child_script, child_state, child_status,
                  stdout_pipe, stderr_pipe, stdout_data, stderr_data,
                  returncode, installerVars, buildVars >>

\* Lines 126-139: process.wait(); a non-zero return code exits with status 1
\* when check is set, otherwise the collected stdout is returned.
WaitChild ==
  /\ cmd_pc = "wait"
  /\ child_state = "exited"
  /\ returncode' = child_status
  /\ cmd_pc' = IF check /\ child_status # 0 THEN "exited" ELSE "returned"
  /\ UNCHANGED << check, child_script, child_state, child_status,
                  stdout_pipe, stderr_pipe, stdout_data, stderr_data,
                  installerVars, buildVars >>

CmdNext ==
  \/ ChildWrites
  \/ ChildExits
  \/ ReadStdout
  \/ StdoutEof
  \/ ReadStderr
  \/ StderrEof
  \/ WaitChild

\* run_command with log_output=True and the child it started.
CmdSpec == CmdInit /\ [][CmdNext]_vars

\* --------------------------------------------- clone_and_build_java_tron
\* The lines a checked-out build.gradle may hold: "dep" is a line
\* 'dependencies {', "marker" a line of the repository that contains
\* javax.annotation:javax.annotation-api, "other" any other line.  "javax"
\* is the dependency line the installer inserts.
UpstreamLines == {"dep", "marker", "other"}

UpstreamFiles == SeqsUpTo(UpstreamLines, MaxLines)

\* Line 668: "javax.annotation:javax.annotation-api" in content
HasMarker(content) ==
  \E i \in 1..Len(content) : content[i] \in {"javax", "marker"}

RECURSIVE Replace(_)
\* Lines 670-671: content.replace("dependencies {", dependency_line), the
\* replacement being the same line followed by the dependency line.
Replace(content) ==
  IF content = <<>> THEN <<>>
  ELSE IF Head(content) = "dep"
       THEN <<"dep", "javax">> \o Replace(Tail(content))
       ELSE <<Head(content)>> \o Replace(Tail(content))

\* Variant of Patch that inserts the dependency without looking for it.
Patch_Unguarded(content) == Replace(content)

\* Lines 668-677: the dependency is inserted unless the file names it.
Patch(content) ==
  IF ~HasMarker(content) THEN Replace(content) ELSE content

\* The first run of the installer on a machine without TRON_DIR reaches
\* clone_and_build_java_tron.
BuildInit ==
  /\ InstallerAtRest
  /\ CmdAtRest
  /\ build_pc = "check_dir"
  /\ run = 1
  /\ tron_dir = "absent"
  /\ gradle = [exists |-> FALSE, content |-> <<>>]
  /\ clone_tried = FALSE
  /\ clone_failed_run = 0

\* Lines 631-637: cloning is skipped when TRON_DIR exists; otherwise the
\* directory is created (makedirs raising reaches the handler at 722-726).
CheckTronDir ==
  /\ build_pc = "check_dir"
  /\ IF tron_dir # "absent"
     THEN build_pc' = "fetch" /\ UNCHANGED tron_dir
     ELSE \/ tron_dir' = "empty" /\ build_pc' = "clone"
          \/ build_pc' = "exit" /\ UNCHANGED tron_dir
  /\ UNCHANGED << run, gradle, clone_tried, clone_failed_run, installerVars,
                  cmdVars >>

\* Lines 639-644: run_command(git clone ... TRON_DIR).  A failed clone
\* removes what it wrote and leaves the directory it found; run_command
\* then exits.
GitClone ==
  /\ build_pc = "clone"
  /\ clone_tried' = TRUE
  /\ \/ /\ tron_dir' = "repo"
        /\ \/ gradle' = [exists |-> FALSE, content |-> <<>>]
           \/ \E c \in UpstreamFiles :
                gradle' = [exists |-> TRUE, content |-> c]
        /\ build_pc' = "fetch"
        /\ UNCHANGED clone_failed_run
     \/ /\ build_pc' = "exit"
        /\ clone_failed_run' = run
        /\ UNCHANGED << tron_dir, gradle >>
  /\ UNCHANGED << run, installerVars, cmdVars >>

\* Lines 648-652: chdir and run_command("git fetch"), which fails outside
\* a repository and may fail inside one.
GitFetch ==
  /\ build_pc = "fetch"
  /\ \/ tron_dir = "repo" /\ build_pc' = "checkout"
     \/ build_pc' = "exit"
  /\ UNCHANGED << run, tron_dir, gradle, clone_tried, clone_failed_run,
                  installerVars, cmdVars >>

\* Lines 655-656: git checkout with check=False; its result is only logged.
GitCheckout ==
  /\ build_pc = "checkout"
  /\ build_pc' = "patch"
  /\ UNCHANGED << run, tron_dir, gradle, clone_tried, clone_failed_run,
                  installerVars, cmdVars >>

\* Lines 659-679: build.gradle, when it exists, is read, patched and
\* written back.
PatchGradle ==
  /\ build_pc = "patch"
  /\ gradle' = IF gradle.exists
               THEN [gradle EXCEPT !.content = Patch(gradle.content)]
               ELSE gradle
  /\ build_pc' = "build"
  /\ UNCHANGED << run, tron_dir, clone_tried, clone_failed_run,
                  installerVars, cmdVars >>

\* Lines 681-720: gradlew build; a non-zero return code or a missing
\* FullNode.jar exits.
GradleBuild ==
  /\ build_pc = "build"
  /\ build_pc' \in {"returned", "exit"}
  /\ UNCHANGED << run, tron_dir, gradle, clone_tried, clone_failed_run,
                  installerVars, cmdVars >>

\* Lines 1786-1787: the operator starts the installer again on the same
\* machine; the run reaches clone_and_build_java_tron.
Rerun ==
  /\ build_pc \in {"returned", "exit"}
  /\ run < MaxRuns
  /\ run' = run + 1
  /\ build_pc' = "check_dir"
  /\ clone_tried' = FALSE
  /\ UNCHANGED << tron_dir, gradle, clone_failed_run, installerVars,
                  cmdVars >>

BuildNext ==
  \/ CheckTronDir
  \/ GitClone
  \/ GitFetch
  \/ GitCheckout
  \/ PatchGradle
  \/ GradleBuild
  \/ Rerun

\* clone_and_build_java_tron over repeated runs of the installer.
BuildSpec == BuildInit /\ [][BuildNext]_vars

\* ------------------------------------------------------------- claims
\* What exists under the target before any member is extracted.
BaseDirs == {OUTPUT_DIR} \cup ParentDirs(OUTPUT_DIR)

\* The paths tar.extract has created or changed.
Written ==
  { p \in DOMAIN fs \ BaseDirs : p \notin DOMAIN start_fs \/ fs[p] # start_fs[p] }

\* A stored name that is absolute or has a path component equal to "..".
Traverses(name) ==
  \/ (Len(name) > 0 /\ name[1] = "/")
  \/ \E i \in 1..(Len(name) - 1) :
       /\ name[i] = "." /\ name[i + 1] = "."
       /\ (i = 1 \/ name[i - 1] = "/")
       /\ (i + 1 = Len(name) \/ name[i + 2] = "/")

\* C1: whenever some entry of the archive has been written, the safety loop
\* has already run over every entry of the archive and none was rejected.
C1_ScanPrecedesExtraction ==
  Written # {} =>
    /\ scanned = Len(members)
    /\ \A k \in 1..Len(members) : ~Traverses(members[k].name)

\* C1 witness: the first of two entries is written, the second is pending.
C1_Witness ==
  pc = "extract" /\ Len(members) = 2 /\ extracted = 1 /\ Written # {}

\* C2: an archive holding an absolute or parent-traversing name, at any
\* position, is never extracted: nothing is written, and the run ends in the
\* unsafe-archive exit (unless the operator interrupts the safety loop).
C2_UnsafeArchiveNeverExtracted ==
  (\E k \in 1..Len(members) : Traverses(members[k].name)) =>
    /\ Written = {}
    /\ extracted = 0
    /\ pc \in {"scan", "exit"}
    /\ ((pc = "exit" /\ ~interrupted) =>
          exit_reason = "unsafe" /\ exit_code = 1)

\* C2 witness: the run has exited on a traversal entry that follows a safe one.
C2_Witness ==
  /\ pc = "exit" /\ exit_reason = "unsafe"
  /\ Len(members) = 2
  /\ ~Traverses(members[1].name)
  /\ members[2].name = <<".", ".", "/", "e">>

RECURSIVE Num(_)
\* The number a sequence of decimal digits writes.
Num(digits) ==
  IF digits = <<>> THEN 0
  ELSE 10 * Num(SubSeq(digits, 1, Len(digits) - 1)) + digits[Len(digits)]

\* The date tags of the dated subdirectories of a listing: backup followed
\* by 8 digits.
DatedTags(text) ==
  { text[i].digits : i \in { j \in DOMAIN text :
      text[j].prefix = "backup" /\ Len(text[j].digits) = 8 } }

\* The dated subdirectory with the numerically largest tag.
NewestTag(text) ==
  CHOOSE t \in DatedTags(text) : \A u \in DatedTags(text) : Num(u) <= Num(t)

C4_ProbeSuccessResolvesNewest ==
  (pc = "find_ret" /\ probe_status = 200) =>
    find_result = [base |-> BASE_URL, dir |-> NewestTag(response_text),
                   file |-> ARCHIVE_NAME]

\* C4 witness: the listing backup20250301, backup20250501, backup20250215
\* and a probe answering 200.
C4_Witness ==
  /\ pc = "find_ret"
  /\ probe_status = 200
  /\ Len(response_text) = 3
  /\ response_text[1].digits = <<2, 0, 2, 5, 0, 3, 0, 1>>
  /\ response_text[2].digits = <<2, 0, 2, 5, 0, 5, 0, 1>>
  /\ response_text[3].digits = <<2, 0, 2, 5, 0, 2, 1, 5>>
  /\ find_result.dir = <<2, 0, 2, 5, 0, 5, 0, 1>>

\* A download request for the archive at url has been issued.
Requested(url) ==
  \E i \in 1..Len(requests_log) :
    requests_log[i] = [method |-> "GET", url |-> url]

\* C5: the run fails in acquisition only after every candidate of the
\* fallback chain, the default URL included, has been attempted.
C5_FailsOnlyAfterEveryCandidate ==
  (pc = "exit" /\ exit_reason = "download") => Requested(FallbackUrl)

\* C6: a failed download leaves no file at the archive path.
C6_NoPartialFileAfterFailedDownload ==
  (pc = "exit" /\ exit_reason = "download") => ~archive_file.exists

\* C7: in every terminal state that follows a completed download (success,
\* unsafe or corrupt archive, failed extraction) the archive file is deleted.
C7_ArchiveDeletedAtEnd ==
  (pc = "returned" \/ (pc = "exit" /\ exit_reason \in {"unsafe", "extract"}))
    => ~archive_file.exists

\* Every entry lies under the one wrapper directory w.
NestedRoot(tar) ==
  /\ tar # <<>>
  /\ \A k \in 1..Len(tar) :
       Len(tar[k].name) > 2 /\ tar[k].name[1] = "w" /\ tar[k].name[2] = "/"

\* The name without its leading component and separator.
Stripped(name) == SubSeq(name, 3, Len(name))

\* C8: after a nested-root archive is extracted, every entry lies at the
\* target joined with its name less the wrapper, and not under the wrapper.
C8_NestedRootStripped ==
  (pc \in {"remove", "returned"} /\ NestedRoot(members)) =>
    \A k \in 1..Len(members) :
      /\ (OUTPUT_DIR \o <<"/">> \o Stripped(members[k].name)) \in DOMAIN fs
      /\ (OUTPUT_DIR \o <<"/">> \o members[k].name) \notin DOMAIN fs

\* C9: in a flat archive, as long as no extraction has failed or been cut
\* off, the file entry extracted last lies at the target joined with its
\* stored path and holds its bytes, and once extraction is over so does every
\* file entry that no later entry of the same name replaced.
C9_FlatExtractionKeepsPathAndBytes ==
  ~NestedRoot(members) =>
    /\ (/\ extracted >= 1
        /\ members[extracted].type = "file"
        /\ exit_reason \notin {"extract", "interrupt"}) =>
         LET p == OUTPUT_DIR \o <<"/">> \o members[extracted].name
         IN p \in DOMAIN fs
            /\ fs[p] = [type |-> "file", data |-> members[extracted].data]
    /\ pc \in {"remove", "returned"} =>
         \A k \in 1..Len(members) :
           (/\ members[k].type = "file"
            /\ \A j \in (k + 1)..Len(members) :
                 members[j].name # members[k].name) =>
             LET p == OUTPUT_DIR \o <<"/">> \o members[k].name
             IN p \in DOMAIN fs
                /\ fs[p] = [type |-> "file", data |-> members[k].data]

\* C9 witness: the run returned after extracting database/ and then
\* database/x.txt with the bytes 2.
C9_Witness ==
  /\ pc = "returned"
  /\ Len(members) = 2
  /\ members[1] = [name |-> <<"d">>, type |-> "dir", data |-> 0]
  /\ members[2] = [name |-> <<"d", "/", "x">>, type |-> "file", data |-> 2]
  /\ fs[<<"/", "o", "/", "d", "/", "x">>].data = 2

\* C10: an archive with zero entries passes the safety loop and its
\* extraction ends without error and with nothing extracted; the run then
\* returns to the installer without an exit.
C10_EmptyArchiveSucceeds ==
  (tar_state \in {"open", "closed"} /\ members = <<>>) =>
    /\ exit_reason \notin {"unsafe", "extract"}
    /\ extracted = 0
    /\ total_files = 0
    /\ Written = {}
    /\ (pc = "returned" => exit_code = -1)

\* C10 witness: the run returned after an archive with zero entries.
C10_Witness ==
  pc = "returned" /\ tar_state = "closed" /\ members = <<>> /\ Written = {}

\* The download has been reported as successful.
DownloadSucceeded == pc \in {"open", "scan", "extract", "remove", "returned"}

\* C11: with a declared content length, the download counts as successful
\* only if the bytes written equal that length.
C11_SuccessOnlyAtDeclaredLength ==
  (DownloadSucceeded /\ total_size > 0) => downloaded = total_size

\* C12: the reported byte counts increase strictly, the latest report is
\* the number of bytes written to the file so far, and the file holds the
\* bytes received whether or not they were reported.
C12_ProgressMonotone ==
  /\ \A i \in 1..(Len(progress_log) - 1) : progress_log[i] < progress_log[i + 1]
  /\ progress_log # <<>> => progress_log[Len(progress_log)] = downloaded
  /\ archive_file.exists => archive_file.size = downloaded

\* C12 witness: two chunks have been written and reported.
C12_Witness ==
  pc = "stream" /\ Len(progress_log) = 2 /\ archive_file.size = 2

\* main has called s.
Started(s) ==
  \/ \E i \in 1..Len(stages_done) : stages_done[i] = s
  \/ (stage = s /\ pc # "main")

\* s has returned to main.
Done(s) == \E i \in 1..Len(stages_done) : stages_done[i] = s

\* A directory named database exists somewhere under the target.
PayloadPresent ==
  \E p \in DOMAIN fs :
    /\ Len(p) > Len(OUTPUT_DIR) + 1
    /\ SubSeq(p, 1, Len(OUTPUT_DIR)) = OUTPUT_DIR
    /\ p[Len(p) - 1] = "/" /\ p[Len(p)] = "d"
    /\ fs[p].type = "dir"

\* C13: download_and_extract_db does not return to main, and no later
\* stage runs, while no database directory exists under the target.
C13_MissingPayloadStopsInstaller ==
  Done("download_and_extract_db") => PayloadPresent

\* C14: once the run has extracted anything, no file that an earlier run
\* left under the target is still there.
C14_NeverExtractsOverLeftover ==
  \A p \in DOMAIN start_fs \ BaseDirs :
    (start_fs[p].type = "file" /\ Written # {}) =>
      (p \notin DOMAIN fs \/ fs[p] # start_fs[p])

\* C15: after an operator interrupt in listing fetch, probe, download or
\* extraction the process has ended with a failure status, no later stage of
\* main has run and the banner is not printed.
C15_InterruptedRunIsNotSuccess ==
  interrupted =>
    /\ pc = "exit"
    /\ exit_code \notin {-1, 0}
    /\ ~banner
    /\ stage = "download_and_extract_db"
    /\ ~Done("download_and_extract_db")
    /\ ~Started("create_config_files")

\* C15 witness: interrupted after the first of two members was extracted.
C15_Witness ==
  interrupted /\ pc = "exit" /\ extracted = 1 /\ Len(members) = 2

\* C16: the status of an unsafe-archive or failed-extraction exit differs
\* from the status of a failed-download exit.
C16_FatalDiffersFromRetryable ==
  (pc = "exit" /\ exit_reason \in {"unsafe", "extract"}) =>
    exit_code # ExitStatus("download")

\* C17 as stated: the pipeline starts after install_dependencies has
\* returned, and the build and the systemd setup start after the pipeline
\* has returned.
C17_PipelineBeforeBuild ==
  /\ Started("download_and_extract_db") => Done("install_dependencies")
  /\ Started("clone_and_build_java_tron") => Done("download_and_extract_db")
  /\ Started("setup_systemd") => Done("download_and_extract_db")

\* C17 as amended: the pipeline starts after install_dependencies and the
\* build have returned, and the service setup (config files, systemd, node
\* start) starts after the pipeline has returned.
C17_PipelineAfterBuildBeforeService ==
  /\ Started("download_and_extract_db") =>
       /\ Done("install_dependencies")
       /\ Done("clone_and_build_java_tron")
  /\ \A s \in {"create_config_files", "setup_systemd", "start_node"} :
       Started(s) => Done("download_and_extract_db")

\* C17 witness: the systemd setup has run after the pipeline returned.
C17_Witness ==
  Done("setup_systemd") /\ Done("download_and_extract_db") /\ pc = "main"

\* The requests for an archive (not the listing page) issued so far.
ArchiveGets ==
  { i \in 1..Len(requests_log) :
      requests_log[i].method = "GET" /\ requests_log[i].url # ListingUrl }

Placed(f, e) ==
  LET p == OUTPUT_DIR \o <<"/">> \o e.name
  IN [q \in DOMAIN f \cup ParentDirs(p) \cup {p} |->
        IF q = p THEN [type |-> e.type, data |-> e.data]
        ELSE IF q \in DOMAIN f THEN f[q]
        ELSE [type |-> "dir", data |-> 0]]

RECURSIVE Unpacked(_, _, _)
\* The tree after the first n entries of tar were placed, in order.
Unpacked(f, tar, n) ==
  IF n = 0 THEN f ELSE Placed(Unpacked(f, tar, n - 1), tar[n])

\* The tree the run extracts into: what it found, with the target created.
TargetAtStart ==
  IF OUTPUT_DIR \in DOMAIN start_fs THEN start_fs
  ELSE [q \in {OUTPUT_DIR} |-> [type |-> "dir", data |-> 0]]

\* C19: when extracting entry k fails the process exits with status 1 from
\* the extraction handler; the entries before k are in place as extracted,
\* and nothing else was written but, at most, the path of entry k itself.
C19_FailedExtractionLeavesPrefix ==
  (pc = "exit" /\ exit_reason = "extract" /\ tar_state = "closed") =>
    /\ exit_code = 1
    /\ extracted < Len(members)
    /\ LET before == Unpacked(TargetAtStart, members, extracted)
           pk == OUTPUT_DIR \o <<"/">> \o members[extracted + 1].name
       IN /\ \A p \in DOMAIN before :
               p \in DOMAIN fs /\ (fs[p] = before[p] \/ p = pk)
          /\ DOMAIN fs \ DOMAIN before \subseteq {pk} \cup ParentDirs(pk)

\* C19 witness: the second of two members failed after the first was
\* extracted.
C19_Witness ==
  /\ pc = "exit" /\ exit_reason = "extract" /\ tar_state = "closed"
  /\ extracted = 1 /\ Len(members) = 2
  /\ members[1].name # members[2].name

\* C20: no transfer is carried out whose declared content length the disk
\* cannot hold.
C20_NoTransferBeyondFreeSpace ==
  pc = "stream" => total_size <= free_space

\* The positions inside find_latest_backup_url.
ResolvingPcs == {"find", "find_wait", "probe", "probe_wait"}

\* C21: resolution always terminates: a run that has entered
\* find_latest_backup_url eventually leaves it.
C21_ResolutionTerminates ==
  (pc \in ResolvingPcs) ~> (pc \notin ResolvingPcs)

\* C22: requests are issued one after the other, resolution first: at most
\* one archive download is ever requested and nothing is requested after
\* it; the URL handed to the download is the one resolution returned, and
\* it is the default URL only when no dated directory was found (the
\* listing request failed or listed none) or the probe of the newest one did
\* not answer 200, or when the newest directory is the default one itself.
C22_FallbackOnlyAfterPrimaryFailed ==
  /\ [](/\ Cardinality(ArchiveGets) <= 1
        /\ ArchiveGets # {} =>
             /\ ArchiveGets = {Len(requests_log)}
             /\ requests_log[1] = [method |-> "GET", url |-> ListingUrl]
             /\ pc \notin ResolvingPcs)
  /\ [][(pc = "find_ret" /\ pc' = "get") =>
          /\ download_url' = find_result
          /\ download_url' = FallbackUrl =>
               \/ backup_dirs = <<>>
               \/ probe_status # 200
               \/ latest_backup = DEFAULT_TAG]_vars

\* C22 witness: the default URL is being downloaded after the probe of
\* another directory was issued.
C22_Witness ==
  /\ pc = "stream"
  /\ download_url = FallbackUrl
  /\ Len(requests_log) = 3
  /\ requests_log[2].method = "HEAD"
  /\ requests_log[2].url # FallbackUrl

\* Extraction ran to its end.
ExtractionSucceeded ==
  tar_state = "closed" /\ exit_reason \notin {"unsafe", "extract", "interrupt"}

\* C23: the members extracted so far are a prefix of the archive, in stored
\* order, whatever progress lines were written; on a successful extraction
\* they are the whole archive, each member once, and the count equals the
\* number of members.
C23_EveryEntryOnceInOrder ==
  /\ Len(extract_log) <= Len(members)
  /\ extract_log = SubSeq(members, 1, Len(extract_log))
  /\ ExtractionSucceeded =>
       /\ extract_log = members
       /\ extracted = Len(members)
       /\ total_files = Len(members)

\* C23 witness: of two members the first wrote a log line only, the second
\* a log line and the progress line.
C23_Witness ==
  /\ ExtractionSucceeded
  /\ Len(members) = 2
  /\ extract_reports = << [i |-> 1, to |-> "log"], [i |-> 2, to |-> "log"],
                          [i |-> 2, to |-> "stdout"] >>

\* C24: with no declared content length every non-empty chunk is written
\* and counted and the run stays in the download; no progress is computed;
\* the download handler is entered only from a failure that wrote nothing.
C24_NoLengthDownloadCompletes ==
  /\ []((total_size = 0 /\ (pc = "stream" \/ DownloadSucceeded)) =>
          /\ progress_log = <<>>
          /\ archive_file.exists => archive_file.size = downloaded)
  /\ [][(pc = "stream" /\ total_size = 0 /\ downloaded' # downloaded) =>
          /\ pc' = "stream"
          /\ archive_file'.size = archive_file.size + downloaded' - downloaded
       ]_vars

\* C24 witness: a download of two bytes without declared length was taken
\* as complete.
C24_Witness ==
  pc = "open" /\ total_size = 0 /\ downloaded = 2 /\ progress_log = <<>>

\* C25: find_latest_backup_url returns one URL in every case: the newest
\* listed directory's archive URL, only after its probe answered 200, or
\* else the default URL; the only probe is the one of the newest listed
\* directory; no exit of the run happens inside the function.
C25_ResolverAlwaysReturnsUrl ==
  /\ pc = "find_ret" =>
       /\ find_result # NoUrl
       /\ find_result \in {Url(latest_backup), FallbackUrl}
       /\ find_result # FallbackUrl =>
            backup_dirs # <<>> /\ probe_status = 200
  /\ pc \in {"probe", "probe_wait", "find_ret"} =>
       \A i \in 1..Len(requests_log) :
         requests_log[i].method = "HEAD" =>
           /\ backup_dirs # <<>>
           /\ requests_log[i].url = Url(latest_backup)
  /\ (pc = "exit" /\ ~interrupted /\ stage = "download_and_extract_db") =>
       download_url # NoUrl

\* C25 witness: the probe raised and the default URL was returned.
C25_Witness ==
  /\ pc = "find_ret"
  /\ find_result = FallbackUrl
  /\ probe_status = 0
  /\ Len(requests_log) = 2
  /\ latest_backup # DEFAULT_TAG

\* C26: the safety loop rejects an archive only if some member's stored
\* path is absolute or has a component equal to "..".
C26_RejectsOnlyTraversal ==
  (pc = "exit" /\ exit_reason = "unsafe") =>
    \E k \in 1..Len(members) : Traverses(members[k].name)

\* C27: the stages that have returned are an initial part of main's call
\* sequence and the next stage is the one that follows them; a failure has
\* been reported exactly when the process has exited, with status 1 unless
\* interrupted, and then no banner is printed; the banner is printed only
\* after download_and_extract_db returned from a complete extraction.
C27_FailStopAcrossStages ==
  /\ Len(stages_done) <= Len(MainStages)
  /\ stages_done = SubSeq(MainStages, 1, Len(stages_done))
  /\ stage = IF Len(stages_done) < Len(MainStages)
             THEN MainStages[Len(stages_done) + 1] ELSE "banner"
  /\ (exit_reason # "none") <=> (pc = "exit")
  /\ (pc = "exit" /\ ~interrupted) => exit_code = 1
  /\ pc = "exit" => ~banner
  /\ banner =>
       /\ Done("download_and_extract_db")
       /\ ExtractionSucceeded /\ extracted = Len(members)
       /\ ~archive_file.exists
       /\ exit_code = 0

\* C27 witness: setup_systemd failed after the pipeline returned.
C27_Witness ==
  /\ pc = "exit" /\ exit_reason = "stage" /\ exit_code = 1
  /\ stage = "setup_systemd"
  /\ Done("download_and_extract_db") /\ ~Done("setup_systemd")

\* The parent waits for end-of-file on stdout, which the running child has
\* not closed.
ParentBlockedOnStdout ==
  cmd_pc = "read_stdout" /\ stdout_pipe = 0 /\ child_state = "running"

\* The child waits for room in the stderr pipe.
ChildBlockedOnStderr ==
  /\ child_state = "running"
  /\ child_script # <<>>
  /\ Head(child_script) = "err"
  /\ stderr_pipe = PipeCap

\* C28: the parent is never blocked reading stdout to end-of-file while the
\* child is blocked writing to the full stderr pipe.
C28_NoPipeDeadlock ==
  ~(ParentBlockedOnStdout /\ ChildBlockedOnStderr)

\* C29: a run that follows a run whose git clone failed calls git clone
\* again before it goes on to git fetch.
C29_RerunClonesAgain ==
  (/\ clone_failed_run > 0
   /\ run > clone_failed_run
   /\ build_pc \notin {"check_dir", "clone"}) => clone_tried

\* No 'dependencies {' line is followed by the inserted line twice.
InsertedAtMostOnce(content) ==
  \A i \in 1..(Len(content) - 2) :
    ~(content[i] = "dep" /\ content[i + 1] = "javax"
      /\ content[i + 2] = "javax")

\* C30: patching a patched build.gradle changes nothing, and through any
\* number of runs no 'dependencies {' block holds the inserted line twice.
C30_PatchIdempotent ==
  gradle.exists =>
    /\ Patch(Patch(gradle.content)) = Patch(gradle.content)
    /\ InsertedAtMostOnce(gradle.content)
    /\ InsertedAtMostOnce(Patch(gradle.content))

\* C30 witness: the third run has gone over a file with two blocks that the
\* first run patched.
C30_Witness ==
  /\ run = 3
  /\ build_pc = "build"
  /\ gradle.exists
  /\ gradle.content = <<"dep", "javax", "other", "dep", "javax">>

====
